---- MODULE Spec2Model ----
(***************************************************************************)
(* Model of the label-to-flavor routing engine of the GitHub runner        *)
(* webhook router: webhook_router/router.py (routing table builder,        *)
(* matcher, job router), webhook_router/app.py (configuration, the         *)
(* /health and /webhook endpoints), webhook_router/parse.py (payload       *)
(* parsing), webhook_router/mq.py (queue collaborator),                    *)
(* webhook_router/webhook/label_translation.py (the string-keyed label     *)
(* mapping), webhook_redelivery.py (the redelivery script) and             *)
(* charm/src/charm.py (the redeliver-failed-webhooks action).              *)
(*                                                                         *)
(* A label is a Python str, modelled as a sequence of characters; a        *)
(* routing-table key is a tuple of labels, modelled as a sequence of       *)
(* labels; the table itself is a function from keys to flavors.            *)
(***************************************************************************)
EXTENDS Integers, Sequences, FiniteSets, TLC

VARIABLES
    flavours,         \* the FLAVOURS configuration, as the YAML document it holds
    default_flavour,  \* the DEFAULT_FLAVOUR configuration / default_flavor
    default_self_hosted_labels,  \* the DEFAULT_SELF_HOSTED_LABELS configuration
    routing_table,    \* app.config["ROUTING_TABLE"]: NoTable or a RoutingTable
    config_error,     \* the ConfigError config_app raised, or NoError
    matched,          \* the last direct call of _labels_to_flavor and its outcome
    queues,           \* the message queues of mq, one per flavor (queue name)
    last,             \* the last call of forward and its outcome
    webhook_secret,   \* the WEBHOOK_SECRET configuration, "" when it is not set
    response,         \* the last HTTP request served and the response to it
    threads,          \* the concurrent calls of forward, one per request thread
    labels_flavor_mapping,  \* the LabelsFlavorMapping of label_translation, or NoTable
    redelivery,       \* one run of the webhook_redelivery script and its outcome
    charm_action      \* one run of the charm's redeliver-failed-webhooks action

vars == <<flavours, default_flavour, default_self_hosted_labels, routing_table,
          config_error, matched, queues, last, webhook_secret, response, threads,
          labels_flavor_mapping, redelivery, charm_action>>

\* the state of label_translation, of the redelivery script and of the charm
script_vars == <<labels_flavor_mapping, redelivery, charm_action>>

(***************************************************************************)
(* Bounds of the model.                                                    *)
(***************************************************************************)
MaxLabels == 3     \* labels listed in one mapping, over all its flavors
MaxQueue == 2      \* messages held by the queues in the checked runs

(***************************************************************************)
(* Characters and strings.                                                 *)
(***************************************************************************)
Chars == {"#", "4", "6", "S", "X", "a", "h", "i", "l", "m", "n", "r", "s", "u", "x"}

\* ord(c): the code point of a character
Ord(c) ==
    CASE c = "#" -> 35
      [] c = "4" -> 52
      [] c = "6" -> 54
      [] c = "S" -> 83
      [] c = "X" -> 88
      [] c = "a" -> 97
      [] c = "h" -> 104
      [] c = "i" -> 105
      [] c = "l" -> 108
      [] c = "m" -> 109
      [] c = "n" -> 110
      [] c = "r" -> 114
      [] c = "s" -> 115
      [] c = "u" -> 117
      [] c = "x" -> 120

\* str.swapcase() on one character: a letter changes case either way
SwapCaseChar(c) ==
    IF Ord(c) >= 65 /\ Ord(c) <= 90
    THEN CHOOSE d \in Chars : Ord(d) = Ord(c) + 32
    ELSE IF \E d \in Chars : Ord(d) = Ord(c) - 32
    THEN CHOOSE d \in Chars : Ord(d) = Ord(c) - 32
    ELSE c

\* str.lower() on one character: an upper-case ASCII letter moves 32 up
LowerChar(c) ==
    IF Ord(c) >= 65 /\ Ord(c) <= 90
    THEN CHOOSE d \in Chars : Ord(d) = Ord(c) + 32
    ELSE c

\* str.lower()
Lower(label) == [i \in 1..Len(label) |-> LowerChar(label[i])]

\* Python's str "<": lexicographic by code point, a proper prefix is smaller
StrLess(a, b) ==
    \E i \in 1..Len(b) :
        /\ \A j \in 1..(i - 1) : j <= Len(a) /\ a[j] = b[j]
        /\ \/ i = Len(a) + 1
           \/ i <= Len(a) /\ Ord(a[i]) < Ord(b[i])

\* the labels of the model
ARM == <<"a", "r", "m">>
X64 == <<"x", "6", "4">>
X64_UPPER == <<"X", "6", "4">>
LabelUniverse == {ARM, X64, X64_UPPER}

\* the flavors of the model; a mapping declares them in this order
FlavorOrder == <<"large", "small">>
Flavors == {FlavorOrder[i] : i \in 1..Len(FlavorOrder)} \cup {"edge"}

(***************************************************************************)
(* sorted(): insertion of each element into the sorted rest.               *)
(***************************************************************************)
RECURSIVE Insert(_, _)
Insert(x, s) ==
    IF s = <<>> THEN <<x>>
    ELSE IF StrLess(x, Head(s)) THEN <<x>> \o s
    ELSE <<Head(s)>> \o Insert(x, Tail(s))

RECURSIVE SortedSeq(_)
SortedSeq(s) == IF s = <<>> THEN <<>> ELSE Insert(Head(s), SortedSeq(Tail(s)))

\* sorted() of a set of strings
RECURSIVE SortedSet(_)
SortedSet(S) ==
    IF S = {} THEN <<>>
    ELSE LET m == CHOOSE x \in S : \A y \in S \ {x} : StrLess(x, y)
         IN <<m>> \o SortedSet(S \ {m})

\* the members of a sequence
Range(s) == {s[i] : i \in 1..Len(s)}

\* the elements of s at the index set I, in the order of s
RECURSIVE PickIndices(_, _, _)
PickIndices(s, I, k) ==
    IF k = 0 THEN <<>>
    ELSE IF k \in I THEN Append(PickIndices(s, I, k - 1), s[k])
    ELSE PickIndices(s, I, k - 1)

\* itertools.combinations(s, n): one tuple per set of n positions of s
Combinations(s, n) ==
    {PickIndices(s, I, Len(s)) : I \in {J \in SUBSET (1..Len(s)) : Cardinality(J) = n}}

(***************************************************************************)
(* router.to_routing_table                                                 *)
(***************************************************************************)
NoTable == [kind |-> "none"]

\* a builder that sorts the labels without lower-casing them
SortedLabelsNoLower(labels) == SortedSeq(labels)

\* tuple(sorted(labels.lower() for labels in labels))
SortedLabels(labels) == SortedSeq([i \in 1..Len(labels) |-> Lower(labels[i])])

\* a builder that keeps only the combination of all the labels of a flavor
LabelCombinationsFullOnly(sorted_labels) ==
    IF sorted_labels = <<>> THEN {} ELSE Combinations(sorted_labels, Len(sorted_labels))

\* a builder whose lengths start at 0, range(0, len(sorted_labels) + 1)
LabelCombinationsFromEmpty(sorted_labels) ==
    UNION {Combinations(sorted_labels, length) : length \in 0..Len(sorted_labels)}

\* the combinations of every length from 1 to len(sorted_labels)
LabelCombinations(sorted_labels) ==
    UNION {Combinations(sorted_labels, length) : length \in 1..Len(sorted_labels)}

\* {label_combination: flavor for label_combination in label_combinations}
RouteEntriesForFlavor(flavor, labels) ==
    [label_combination \in LabelCombinations(SortedLabels(labels)) |-> flavor]

\* a merge in the other order, {**routing_table, **route_entries_for_flavor}
MergeEntriesNewWins(route_entries_for_flavor, table) ==
    [key \in DOMAIN route_entries_for_flavor \cup DOMAIN table |->
        IF key \in DOMAIN route_entries_for_flavor
        THEN route_entries_for_flavor[key] ELSE table[key]]

\* {**route_entries_for_flavor, **routing_table}: the existing entries win
MergeEntries(route_entries_for_flavor, table) ==
    [key \in DOMAIN route_entries_for_flavor \cup DOMAIN table |->
        IF key \in DOMAIN table THEN table[key] ELSE route_entries_for_flavor[key]]

EmptyTable == [key \in {} |-> "none"]

\* the loop of to_routing_table over the first n pairs of the mapping
RECURSIVE TableAfter(_, _)
TableAfter(mapping, n) ==
    IF n = 0 THEN EmptyTable
    ELSE MergeEntries(RouteEntriesForFlavor(mapping[n][1], mapping[n][2]),
                      TableAfter(mapping, n - 1))

\* a builder that also enters the default flavor, under the empty key
to_routing_table_with_default_entry(flavor_label_mapping_list, default_flavor) ==
    [kind |-> "table",
     value |-> MergeEntries([key \in {<<>>} |-> default_flavor],
                            TableAfter(flavor_label_mapping_list,
                                       Len(flavor_label_mapping_list))),
     default_flavor |-> default_flavor]

to_routing_table(flavor_label_mapping_list, default_flavor) ==
    [kind |-> "table",
     value |-> TableAfter(flavor_label_mapping_list, Len(flavor_label_mapping_list)),
     default_flavor |-> default_flavor]

(***************************************************************************)
(* router._labels_to_flavor                                                *)
(***************************************************************************)
\* a matcher that falls back to the default flavor when the key is missing
_labels_to_flavor_default_on_miss(labels, table) ==
    LET labels_lowered == {Lower(label) : label \in labels}
        label_key == SortedSet(labels_lowered)
    IN  IF labels_lowered = {} \/ label_key \notin DOMAIN table.value
        THEN [ok |-> TRUE, flavor |-> table.default_flavor]
        ELSE [ok |-> TRUE, flavor |-> table.value[label_key]]

\* a matcher without the early return for the empty label set
_labels_to_flavor_no_empty_check(labels, table) ==
    LET labels_lowered == {Lower(label) : label \in labels}
        label_key == SortedSet(labels_lowered)
    IN  IF label_key \notin DOMAIN table.value
        THEN [ok |-> FALSE, error |-> "Invalid label combination: ", labels |-> labels]
        ELSE [ok |-> TRUE, flavor |-> table.value[label_key]]

_labels_to_flavor(labels, table) ==
    LET labels_lowered == {Lower(label) : label \in labels}
        label_key == SortedSet(labels_lowered)
    IN  IF labels_lowered = {} THEN [ok |-> TRUE, flavor |-> table.default_flavor]
        ELSE IF label_key \notin DOMAIN table.value
        THEN [ok |-> FALSE, error |-> "Invalid label combination: ", labels |-> labels]
        ELSE [ok |-> TRUE, flavor |-> table.value[label_key]]

(***************************************************************************)
(* app._parse_flavors_config and the other configuration parsers.          *)
(*                                                                         *)
(* The FLAVOURS document is unset (the empty string), not YAML, YAML that  *)
(* is no list, or a list of items; an item is a dict, modelled as the      *)
(* sequence of its (key, value) pairs; a value is a list of labels or null.*)
(***************************************************************************)
ListValue(labels) == [kind |-> "list", labels |-> labels]
NullValue == [kind |-> "null"]

FlavoursList(items) == [kind |-> "list", items |-> items]

\* a loop that compares the flavor of an item with the one before it only
RECURSIVE CheckItemsAdjacentOnly(_, _, _)
CheckItemsAdjacentOnly(items, i, seen) ==
    IF i > Len(items) THEN "ok"
    ELSE IF Len(items[i]) # 1
    THEN "Invalid 'FLAVOURS' config. Expected a single key-value pair"
    ELSE IF items[i][1][1] \in seen
    THEN "Invalid 'FLAVOURS' config. Duplicate flavour"
    ELSE CheckItemsAdjacentOnly(items, i + 1, {items[i][1][1]})

\* the loop over the items: the first item that is no single pair, or whose
\* flavor was seen before, ends it with a ConfigError
RECURSIVE CheckItems(_, _, _)
CheckItems(items, i, seen) ==
    IF i > Len(items) THEN "ok"
    ELSE IF Len(items[i]) # 1
    THEN "Invalid 'FLAVOURS' config. Expected a single key-value pair"
    ELSE IF items[i][1][1] \in seen
    THEN "Invalid 'FLAVOURS' config. Duplicate flavour"
    ELSE CheckItems(items, i + 1, seen \cup {items[i][1][1]})

\* FlavorsConfig(flavor_list=...): every value must be a list of labels
ValidFlavorsConfig(items) ==
    \A i \in 1..Len(items) : \A k \in 1..Len(items[i]) : items[i][k][2].kind = "list"

ConfigFailure(msg) == [ok |-> FALSE, error |-> msg]

_parse_flavors_config(flavors_config) ==
    IF flavors_config.kind = "unset" THEN ConfigFailure("FLAVOURS config is not set!")
    ELSE IF flavors_config.kind = "invalid_yaml"
    THEN ConfigFailure("Invalid 'FLAVOURS' config. Invalid yaml.")
    ELSE IF flavors_config.kind # "list"
    THEN ConfigFailure("Invalid 'FLAVOURS' config. Expected a YAML file with a list at the top level.")
    ELSE IF CheckItems(flavors_config.items, 1, {}) # "ok"
    THEN ConfigFailure(CheckItems(flavors_config.items, 1, {}))
    ELSE IF ~ValidFlavorsConfig(flavors_config.items)
    THEN ConfigFailure("Invalid 'FLAVOURS' config. Invalid format.")
    ELSE [ok |-> TRUE, flavor_list |-> flavors_config.items]

_parse_default_flavor_config(default_flavor) ==
    IF default_flavor = "" THEN ConfigFailure("DEFAULT_FLAVOUR config is not set!")
    ELSE [ok |-> TRUE, flavor |-> default_flavor]

\* str.split(","): the pieces of a string between its commas
RECURSIVE Split(_, _)
Split(str, piece) ==
    IF str = <<>> THEN <<piece>>
    ELSE IF Head(str) = "," THEN <<piece>> \o Split(Tail(str), <<>>)
    ELSE Split(Tail(str), Append(piece, Head(str)))

_parse_default_self_hosted_labels_config(labels) ==
    IF labels = <<>> THEN ConfigFailure("DEFAULT_SELF_HOSTED_LABELS config is not set!")
    ELSE [ok |-> TRUE, labels |-> Range(Split(labels, <<>>))]

\* [tuple(item.items())[0] for item in flavors_config.flavor_list]
FlavorLabelsMappingList(flavor_list) ==
    [i \in 1..Len(flavor_list) |-> <<flavor_list[i][1][1], flavor_list[i][1][2].labels>>]

(***************************************************************************)
(* The inputs of the model.                                                *)
(***************************************************************************)
\* the label lists an operator may give one flavor
LabelLists == UNION {[1..n -> LabelUniverse] : n \in 0..MaxLabels}

\* the number of labels a choice of label lists holds
RECURSIVE TotalLabels(_, _)
TotalLabels(lists, n) == IF n = 0 THEN 0 ELSE Len(lists[n]) + TotalLabels(lists, n - 1)

\* the well-formed FLAVOURS lists: the flavors of FlavorOrder, or the first
\* ones of them, with at most MaxLabels labels listed in all
FlavourLists ==
    UNION {{[i \in 1..n |-> <<<<FlavorOrder[i], ListValue(lists[i])>>>>] :
               lists \in {c \in [1..n -> LabelLists] : TotalLabels(c, n) <= MaxLabels}}
           : n \in 0..Len(FlavorOrder)}

\* the label sets a caller may ask for
LabelSets == SUBSET LabelUniverse

NoError == "none"
NoMatch == [kind |-> "none"]
NoCall == [kind |-> "none"]
NoResponse == [endpoint |-> "none"]
NoThreads == <<>>
NoRun == [pc |-> "none"]
NoAction == [status |-> "none"]
NoQueues == [flavor \in Flavors |-> <<>>]

\* the DEFAULT_SELF_HOSTED_LABELS string "sh,linux"
SelfHostedLabelsStr == <<"s", "h", ",", "l", "i", "n", "u", "x">>
StrConfig(str) == [kind |-> "str", value |-> str]

(***************************************************************************)
(* The routing engine alone: a table is built from a mapping and a default *)
(* flavor, then label sets are matched against it.                         *)
(***************************************************************************)
InitTable ==
    /\ flavours \in {FlavoursList(items) : items \in FlavourLists}
    /\ default_flavour \in {"large", "edge"}
    /\ default_self_hosted_labels = StrConfig(SelfHostedLabelsStr)
    /\ routing_table = NoTable
    /\ config_error = NoError
    /\ matched = NoMatch
    /\ queues = NoQueues
    /\ last = NoCall
    /\ webhook_secret = ""
    /\ response = NoResponse
    /\ threads = NoThreads
    /\ labels_flavor_mapping = NoTable
    /\ redelivery = NoRun
    /\ charm_action = NoAction

\* the flavor_label_mapping_list the table is built from
MappingList == FlavorLabelsMappingList(flavours.items)

\* routing_table = to_routing_table(flavor_label_mapping_list, default_flavor)
BuildTable ==
    /\ routing_table = NoTable
    /\ routing_table' = to_routing_table(MappingList, default_flavour)
    /\ UNCHANGED script_vars
    /\ UNCHANGED <<flavours, default_flavour, default_self_hosted_labels,
                   config_error, matched, queues, last, webhook_secret, response,
                   threads>>

\* _labels_to_flavor(labels, routing_table)
Match(labels) ==
    /\ routing_table # NoTable
    /\ matched' = [kind |-> "call", labels |-> labels,
                   outcome |-> _labels_to_flavor(labels, routing_table)]
    /\ UNCHANGED script_vars
    /\ UNCHANGED <<flavours, default_flavour, default_self_hosted_labels,
                   routing_table, config_error, queues, last, webhook_secret,
                   response, threads>>

NextTable ==
    \/ BuildTable
    \/ \E labels \in LabelSets : Match(labels)

SpecTable == InitTable /\ [][NextTable]_vars

(***************************************************************************)
(* mq.add_job_to_queue                                                     *)
(***************************************************************************)
\* job.model_dump_json(): the message put on the queue
model_dump_json(job) == [labels |-> job.labels, status |-> job.status]

\* _add_to_queue(msg, queue_name): simple_queue.put(msg) on the named queue
_add_to_queue(q, msg, queue_name) == [q EXCEPT ![queue_name] = Append(@, msg)]

add_job_to_queue(q, job, flavor) == _add_to_queue(q, model_dump_json(job), flavor)

\* the messages held by all the queues
RECURSIVE QueuedIn(_, _)
QueuedIn(q, names) ==
    IF names = {} THEN 0
    ELSE LET name == CHOOSE n \in names : TRUE
         IN  Len(q[name]) + QueuedIn(q, names \ {name})

Queued(q) == QueuedIn(q, DOMAIN q)

(***************************************************************************)
(* router.forward                                                          *)
(***************************************************************************)
ROUTABLE_JOB_STATUS == "queued"
JobStatus == {"completed", "in_progress", "queued", "waiting"}

\* a router without the check of the job status
forward_any_status(job, table, q, mq_up) ==
    LET flavor == _labels_to_flavor(Range(job.labels), table)
    IN  IF ~flavor.ok
        THEN [outcome |-> "NonForwardableJobError",
              message |-> <<"Not able to forward job: ", flavor.error, flavor.labels>>,
              calls |-> <<>>, mq_calls |-> <<>>, queues |-> q]
        ELSE IF mq_up
        THEN [outcome |-> "returned",
              calls |-> <<[job |-> job, flavor |-> flavor.flavor]>>,
              mq_calls |-> <<"add_job_to_queue">>,
              queues |-> add_job_to_queue(q, job, flavor.flavor)]
        ELSE [outcome |-> "OperationalError",
              calls |-> <<[job |-> job, flavor |-> flavor.flavor]>>,
              mq_calls |-> <<"add_job_to_queue">>,
              queues |-> q]

\* a router that hands every job to the queue of the default flavor
forward_to_default(job, table, q, mq_up) ==
    IF job.status # "queued"
    THEN [outcome |-> "returned", calls |-> <<>>, mq_calls |-> <<>>, queues |-> q]
    ELSE LET flavor == _labels_to_flavor(Range(job.labels), table)
         IN  IF ~flavor.ok
             THEN [outcome |-> "NonForwardableJobError",
                   message |-> <<"Not able to forward job: ", flavor.error, flavor.labels>>,
                   calls |-> <<>>, mq_calls |-> <<>>, queues |-> q]
             ELSE IF mq_up
             THEN [outcome |-> "returned",
                   calls |-> <<[job |-> job, flavor |-> table.default_flavor]>>,
                   mq_calls |-> <<"add_job_to_queue">>,
                   queues |-> add_job_to_queue(q, job, table.default_flavor)]
             ELSE [outcome |-> "OperationalError",
                   calls |-> <<[job |-> job, flavor |-> table.default_flavor]>>,
                   mq_calls |-> <<"add_job_to_queue">>,
                   queues |-> q]

\* a router that drops a job with an invalid label combination silently
forward_swallowing(job, table, q, mq_up) ==
    IF job.status # "queued"
    THEN [outcome |-> "returned", calls |-> <<>>, mq_calls |-> <<>>, queues |-> q]
    ELSE LET flavor == _labels_to_flavor(Range(job.labels), table)
         IN  IF ~flavor.ok
             THEN [outcome |-> "returned", calls |-> <<>>, mq_calls |-> <<>>, queues |-> q]
             ELSE IF mq_up
             THEN [outcome |-> "returned",
                   calls |-> <<[job |-> job, flavor |-> flavor.flavor]>>,
                   mq_calls |-> <<"add_job_to_queue">>,
                   queues |-> add_job_to_queue(q, job, flavor.flavor)]
             ELSE [outcome |-> "OperationalError",
                   calls |-> <<[job |-> job, flavor |-> flavor.flavor]>>,
                   mq_calls |-> <<"add_job_to_queue">>,
                   queues |-> q]

\* a router whose try block also covers the call of mq.add_job_to_queue
forward_wrapping_queue_errors(job, table, q, mq_up) ==
    IF job.status # "queued"
    THEN [outcome |-> "returned", calls |-> <<>>, mq_calls |-> <<>>, queues |-> q]
    ELSE LET flavor == _labels_to_flavor(Range(job.labels), table)
         IN  IF ~flavor.ok
             THEN [outcome |-> "NonForwardableJobError",
                   message |-> <<"Not able to forward job: ", flavor.error, flavor.labels>>,
                   calls |-> <<>>, mq_calls |-> <<>>, queues |-> q]
             ELSE IF mq_up
             THEN [outcome |-> "returned",
                   calls |-> <<[job |-> job, flavor |-> flavor.flavor]>>,
                   mq_calls |-> <<"add_job_to_queue">>,
                   queues |-> add_job_to_queue(q, job, flavor.flavor)]
             ELSE [outcome |-> "NonForwardableJobError",
                   message |-> <<"Not able to forward job: ", "OperationalError", {}>>,
                   calls |-> <<[job |-> job, flavor |-> flavor.flavor]>>,
                   mq_calls |-> <<"add_job_to_queue">>,
                   queues |-> q]

\* what one call of forward does: how it ends, the calls of
\* mq.add_job_to_queue it makes, and the queues it leaves.  mq_up tells whether
\* the queue collaborator can be reached during the call.
forward(job, table, q, mq_up) ==
    IF job.status # ROUTABLE_JOB_STATUS
    THEN [outcome |-> "returned", calls |-> <<>>, mq_calls |-> <<>>, queues |-> q]
    ELSE LET flavor == _labels_to_flavor(Range(job.labels), table)
         IN  IF ~flavor.ok
             THEN [outcome |-> "NonForwardableJobError",
                   message |-> <<"Not able to forward job: ", flavor.error, flavor.labels>>,
                   calls |-> <<>>, mq_calls |-> <<>>, queues |-> q]
             ELSE IF mq_up
             THEN [outcome |-> "returned",
                   calls |-> <<[job |-> job, flavor |-> flavor.flavor]>>,
                   mq_calls |-> <<"add_job_to_queue">>,
                   queues |-> add_job_to_queue(q, job, flavor.flavor)]
             ELSE [outcome |-> "OperationalError",
                   calls |-> <<[job |-> job, flavor |-> flavor.flavor]>>,
                   mq_calls |-> <<"add_job_to_queue">>,
                   queues |-> q]

(***************************************************************************)
(* The application: config_app once at start-up, then jobs are forwarded.  *)
(***************************************************************************)
\* FLAVOURS documents: unset, malformed in each way the parser tells apart,
\* the empty list, and lists of flavors
AppFlavours ==
    { [kind |-> "unset"], [kind |-> "invalid_yaml"], [kind |-> "dict"],
      FlavoursList(<<>>),
      FlavoursList(<< <<<<"large", ListValue(<<ARM>>)>>>> >>),
      FlavoursList(<< <<<<"large", ListValue(<<ARM, X64_UPPER>>)>>>>,
                      <<<<"small", ListValue(<<X64>>)>>>> >>),
      FlavoursList(<< <<<<"large", ListValue(<<ARM>>)>>>>,
                      <<<<"small", ListValue(<<X64_UPPER>>)>>>> >>),
      FlavoursList(<< <<<<"large", ListValue(<<>>)>>>>,
                      <<<<"small", ListValue(<<X64, ARM>>)>>>> >>),
      FlavoursList(<< <<<<"large", ListValue(<<ARM>>)>>>>,
                      <<<<"large", ListValue(<<X64>>)>>>> >>),
      FlavoursList(<< <<<<"large", ListValue(<<ARM>>)>>, <<"small", ListValue(<<X64>>)>>>> >>),
      FlavoursList(<< <<<<"large", NullValue>>>> >>) }

\* the label lists of the jobs
JobLabelLists == {<<>>, <<ARM>>, <<X64_UPPER>>, <<X64, ARM>>, <<ARM, ARM>>}

Jobs == [labels : JobLabelLists, status : JobStatus]

Init ==
    /\ flavours \in AppFlavours
    /\ default_flavour \in {"", "large", "edge"}
    /\ default_self_hosted_labels \in {StrConfig(<<>>), StrConfig(SelfHostedLabelsStr)}
    /\ routing_table = NoTable
    /\ config_error = NoError
    /\ matched = NoMatch
    /\ queues = NoQueues
    /\ last = NoCall
    /\ webhook_secret = ""
    /\ response = NoResponse
    /\ threads = NoThreads
    /\ labels_flavor_mapping = NoTable
    /\ redelivery = NoRun
    /\ charm_action = NoAction

\* the first ConfigError of config_app, or NoError
ConfigErrorOf(flavors_config, default_flavor, self_hosted_labels) ==
    IF ~_parse_flavors_config(flavors_config).ok
    THEN _parse_flavors_config(flavors_config).error
    ELSE IF ~_parse_default_flavor_config(default_flavor).ok
    THEN _parse_default_flavor_config(default_flavor).error
    ELSE IF ~_parse_default_self_hosted_labels_config(self_hosted_labels).ok
    THEN _parse_default_self_hosted_labels_config(self_hosted_labels).error
    ELSE NoError

\* a config_app that installs the self-hosted labels before it parses the
\* FLAVOURS and DEFAULT_FLAVOUR configuration
config_app_installing_labels_first ==
    /\ routing_table = NoTable
    /\ config_error = NoError
    /\ LET error == ConfigErrorOf(flavours, default_flavour, default_self_hosted_labels.value)
           labels == _parse_default_self_hosted_labels_config(default_self_hosted_labels.value)
       IN  /\ default_self_hosted_labels' =
                  IF labels.ok THEN [kind |-> "set", value |-> labels.labels]
                  ELSE default_self_hosted_labels
           /\ IF error # NoError
              THEN config_error' = error /\ UNCHANGED routing_table
              ELSE /\ routing_table' =
                          to_routing_table(
                              FlavorLabelsMappingList(_parse_flavors_config(flavours).flavor_list),
                              _parse_default_flavor_config(default_flavour).flavor)
                   /\ UNCHANGED config_error
    /\ UNCHANGED script_vars
    /\ UNCHANGED <<flavours, default_flavour, matched, queues, last,
                   webhook_secret, response, threads>>

\* config_app(flask_app)
config_app ==
    /\ routing_table = NoTable
    /\ config_error = NoError
    /\ LET error == ConfigErrorOf(flavours, default_flavour, default_self_hosted_labels.value)
       IN  IF error # NoError
           THEN /\ config_error' = error
                /\ UNCHANGED <<default_self_hosted_labels, routing_table>>
           ELSE /\ default_self_hosted_labels' =
                       [kind |-> "set",
                        value |-> _parse_default_self_hosted_labels_config(
                                      default_self_hosted_labels.value).labels]
                /\ routing_table' =
                       to_routing_table(
                           FlavorLabelsMappingList(_parse_flavors_config(flavours).flavor_list),
                           _parse_default_flavor_config(default_flavour).flavor)
                /\ UNCHANGED config_error
    /\ UNCHANGED script_vars
    /\ UNCHANGED <<flavours, default_flavour, matched, queues, last,
                   webhook_secret, response, threads>>

\* router.forward(job, routing_table=app.config["ROUTING_TABLE"])
Forward(job, mq_up) ==
    /\ routing_table # NoTable
    /\ Queued(queues) < MaxQueue
    /\ LET result == forward(job, routing_table, queues, mq_up)
       IN  /\ last' = [kind |-> "call", job |-> job, mq_up |-> mq_up,
                       outcome |-> result.outcome, calls |-> result.calls,
                       message |-> IF result.outcome = "NonForwardableJobError"
                                   THEN result.message ELSE <<>>,
                       queues_before |-> queues]
           /\ queues' = result.queues
    /\ UNCHANGED script_vars
    /\ UNCHANGED <<flavours, default_flavour, default_self_hosted_labels,
                   routing_table, config_error, matched, webhook_secret, response,
                   threads>>

Next ==
    \/ config_app
    \/ \E job \in Jobs, mq_up \in BOOLEAN : Forward(job, mq_up)

Spec == Init /\ [][Next]_vars

(***************************************************************************)
(* Properties of the routing table builder and the matcher.                *)
(***************************************************************************)
\* the lower-cased labels of the i-th pair of the mapping
FlavorLabelSet(i) == {Lower(label) : label \in Range(MappingList[i][2])}

\* the lower-cased form of the label set given to the last match
MatchedLowered == {Lower(label) : label \in matched.labels}

\* the pairs of the mapping whose labels include every label of S
Covering(S) == {i \in 1..Len(MappingList) : S \subseteq FlavorLabelSet(i)}

\* C1 (subset coverage): once the table is built, the sorted tuple of every
\* non-empty subset S of the lower-cased labels of every pair (f, labels) of
\* the mapping is a key of the table, and a match of a label set whose
\* lower-cased form is S returns f unless an earlier pair also has S among
\* its labels.
SubsetCoverage ==
    routing_table # NoTable =>
        \A i \in 1..Len(MappingList) :
            /\ \A S \in (SUBSET FlavorLabelSet(i)) \ {{}} :
                   SortedSet(S) \in DOMAIN routing_table.value
            /\ (/\ matched # NoMatch
                /\ MatchedLowered # {}
                /\ i \in Covering(MatchedLowered)
                /\ \A j \in 1..(i - 1) : j \notin Covering(MatchedLowered))
               => matched.outcome = [ok |-> TRUE, flavor |-> MappingList[i][1]]

\* C1 witness: a subset of the second flavor's labels, not shadowed by the
\* first flavor, has been matched
SubsetCoverageWitness ==
    /\ matched # NoMatch
    /\ Len(MappingList) = 2
    /\ Cardinality(FlavorLabelSet(2)) = 2
    /\ Cardinality(MatchedLowered) = 1
    /\ Covering(MatchedLowered) = {2}
    /\ matched.outcome = [ok |-> TRUE, flavor |-> "small"]

\* C2 (first-declared-wins): the key of every label set that is a subset of
\* the labels of two or more flavors maps to the flavor that comes first in
\* the mapping, and no step of the builder's loop changes an entry that an
\* earlier step created.
FirstDeclaredWins ==
    routing_table # NoTable =>
        /\ \A S \in (SUBSET {Lower(label) : label \in LabelUniverse}) \ {{}} :
               Cardinality(Covering(S)) >= 2 =>
                   LET first == CHOOSE i \in Covering(S) : \A j \in Covering(S) : i <= j
                   IN  /\ SortedSet(S) \in DOMAIN routing_table.value
                       /\ routing_table.value[SortedSet(S)] = MappingList[first][1]
        /\ \A n \in 1..Len(MappingList) :
               \A key \in DOMAIN TableAfter(MappingList, n - 1) :
                   /\ key \in DOMAIN TableAfter(MappingList, n)
                   /\ TableAfter(MappingList, n)[key]
                          = TableAfter(MappingList, n - 1)[key]
        /\ routing_table.value = TableAfter(MappingList, Len(MappingList))

\* C2 witness: a table is built from two flavors that share a label
FirstDeclaredWinsWitness ==
    /\ routing_table # NoTable
    /\ Len(MappingList) = 2
    /\ Covering({X64}) = {1, 2}
    /\ Covering({ARM}) = {2}
    /\ routing_table.value[<<X64>>] = "large"
    /\ routing_table.value[<<ARM, X64>>] = "small"

\* C3 (no partial match): a match of a non-empty label set that is not a
\* subset of the labels of one single flavor fails with the
\* invalid-label-combination error.
NoPartialMatch ==
    (/\ matched # NoMatch
     /\ MatchedLowered # {}
     /\ Covering(MatchedLowered) = {})
        => /\ matched.outcome.ok = FALSE
           /\ matched.outcome.error = "Invalid label combination: "

\* C3 witness: labels of two different flavors are mixed in one match, each
\* of them alone being a key
NoPartialMatchWitness ==
    /\ matched # NoMatch
    /\ MatchedLowered = {ARM, X64}
    /\ Covering({ARM}) = {1}
    /\ Covering({X64}) = {2}
    /\ matched.outcome.ok = FALSE

\* C3 witness: one unconfigured label next to a valid one
NoPartialMatchUnconfiguredWitness ==
    /\ matched # NoMatch
    /\ MatchedLowered = {ARM, X64}
    /\ Covering({ARM}) # {}
    /\ Covering({X64}) = {}
    /\ matched.outcome.ok = FALSE

\* C4 (empty set resolves to default): a match of the empty label set returns
\* the default flavor of the table and does not fail, whatever the table
\* holds and whether or not the default flavor is declared in the mapping.
EmptySetResolvesToDefault ==
    (matched # NoMatch /\ matched.labels = {})
        => matched.outcome = [ok |-> TRUE, flavor |-> default_flavour]

\* C4 witness: the empty set matched against a table without entries whose
\* default flavor is no flavor of the mapping
EmptySetResolvesToDefaultWitness ==
    /\ matched # NoMatch
    /\ matched.labels = {}
    /\ routing_table.value = EmptyTable
    /\ default_flavour = "edge"
    /\ matched.outcome = [ok |-> TRUE, flavor |-> "edge"]

\* the outcome of a match without the text of the error
OutcomeKind(outcome) == IF outcome.ok THEN <<"flavor", outcome.flavor>> ELSE <<"error">>

\* the re-casings of a label list: the same length, each label the same up to case
Recasings(labels) ==
    {other \in [1..Len(labels) -> LabelUniverse] :
        \A i \in 1..Len(labels) : Lower(other[i]) = Lower(labels[i])}

\* the re-casings of a mapping: the same flavors, each label list re-cased
RecasedMappings(mapping) ==
    LET lists == UNION {Recasings(mapping[i][2]) : i \in 1..Len(mapping)}
        choices == {c \in [1..Len(mapping) -> lists] :
                       \A i \in 1..Len(mapping) : c[i] \in Recasings(mapping[i][2])}
    IN  {[i \in 1..Len(mapping) |-> <<mapping[i][1], c[i]>>] : c \in choices}

\* C5 (case insensitivity): the outcome of a match is the outcome of the match
\* of every re-casing of the label set against the table built from every
\* re-casing of the mapping.
CaseInsensitivity ==
    matched # NoMatch =>
        \A mapping \in RecasedMappings(MappingList) :
            LET table == to_routing_table(mapping, default_flavour)
            IN  \A labels \in {L \in LabelSets : {Lower(l) : l \in L} = MatchedLowered} :
                    OutcomeKind(_labels_to_flavor(labels, table)) = OutcomeKind(matched.outcome)

\* C5 witness: an upper-case label matched against a table built from the
\* label in lower case, and found
CaseInsensitivityWitness ==
    /\ matched # NoMatch
    /\ matched.labels = {X64_UPPER}
    /\ MappingList = <<<<"large", <<X64>>>>>>
    /\ matched.outcome = [ok |-> TRUE, flavor |-> "large"]

\* C6 (table key invariant): every key of the built table is a non-empty
\* tuple of lower-case labels in sorted order with no label appearing twice.
TableKeyInvariant ==
    routing_table # NoTable =>
        \A key \in DOMAIN routing_table.value :
            /\ key # <<>>
            /\ \A i \in 1..Len(key) : key[i] = Lower(key[i])
            /\ \A i \in 1..(Len(key) - 1) : StrLess(key[i], key[i + 1])

(***************************************************************************)
(* Properties of the job router.                                           *)
(***************************************************************************)
\* the lower-cased label set of the job of the last call of forward
LastLowered == {Lower(label) : label \in Range(last.job.labels)}

\* C7 (non-queued jobs are no-ops): a call of forward with a job whose status
\* is completed, in_progress or waiting returns without raising, makes no call
\* of mq.add_job_to_queue and leaves the queues as they were, whatever the
\* labels of the job are.
NonQueuedJobsAreNoOps ==
    (last # NoCall /\ last.job.status \in {"completed", "in_progress", "waiting"})
        => /\ last.outcome = "returned"
           /\ last.calls = <<>>
           /\ queues = last.queues_before

\* C7 witness: a completed job whose labels are a key of the table went
\* through forward
NonQueuedJobsAreNoOpsWitness ==
    /\ last # NoCall
    /\ last.job.status = "completed"
    /\ LastLowered # {}
    /\ SortedSet(LastLowered) \in DOMAIN routing_table.value
    /\ last.outcome = "returned"

\* C8: a call of forward with a queued job whose label set is empty or is a
\* key of the routing table calls mq.add_job_to_queue exactly once, with that
\* job and with the flavor _labels_to_flavor returns for its labels; when the
\* queue can be reached the job is then the last message of that flavor's
\* queue and no other queue has changed.
QueuedJobForwardedOnce ==
    (/\ last # NoCall
     /\ last.job.status = "queued"
     /\ LastLowered = {} \/ SortedSet(LastLowered) \in DOMAIN routing_table.value)
        => LET flavor == _labels_to_flavor(Range(last.job.labels), routing_table).flavor
           IN  /\ last.calls = <<[job |-> last.job, flavor |-> flavor]>>
               /\ flavor = IF LastLowered = {} THEN routing_table.default_flavor
                           ELSE routing_table.value[SortedSet(LastLowered)]
               /\ last.mq_up =>
                      /\ last.outcome = "returned"
                      /\ queues = [last.queues_before EXCEPT
                                      ![flavor] = Append(@, model_dump_json(last.job))]

\* C8 witness: a queued job with two labels in mixed case was put on the queue
\* of the flavor that is not the default one
QueuedJobForwardedOnceWitness ==
    /\ last # NoCall
    /\ last.job = [labels |-> <<X64, ARM>>, status |-> "queued"]
    /\ last.mq_up
    /\ routing_table.default_flavor = "large"
    /\ Len(last.calls) = 1
    /\ last.calls[1].flavor = "small"
    /\ Len(queues["small"]) >= 1

EmptyMappingIsRejected ==
    (flavours.kind = "list" /\ flavours.items = <<>>) => routing_table = NoTable

(***************************************************************************)
(* config_app over the FLAVOURS lists an operator can write from a few     *)
(* items, in every order and with repetitions.                             *)
(***************************************************************************)
MaxItems == 3      \* items of a FLAVOURS list

\* the items of the lists: one flavor with its labels, a flavor without a
\* value, and a dict of two flavors
ConfigItems ==
    { <<<<"large", ListValue(<<ARM>>)>>>>,
      <<<<"small", ListValue(<<X64>>)>>>>,
      <<<<"edge", NullValue>>>>,
      <<<<"large", ListValue(<<X64>>)>>, <<"small", ListValue(<<ARM>>)>>>> }

ConfigLists == UNION {[1..n -> ConfigItems] : n \in 0..MaxItems}

InitConfig ==
    /\ flavours \in {FlavoursList(items) : items \in ConfigLists}
    /\ default_flavour \in {"", "large"}
    /\ default_self_hosted_labels \in {StrConfig(<<>>), StrConfig(SelfHostedLabelsStr)}
    /\ routing_table = NoTable
    /\ config_error = NoError
    /\ matched = NoMatch
    /\ queues = NoQueues
    /\ last = NoCall
    /\ webhook_secret = ""
    /\ response = NoResponse
    /\ threads = NoThreads
    /\ labels_flavor_mapping = NoTable
    /\ redelivery = NoRun
    /\ charm_action = NoAction

NextConfig == config_app

SpecConfig == InitConfig /\ [][NextConfig]_vars

\* config_app has run: it built the table or raised a ConfigError
ConfigDone == routing_table # NoTable \/ config_error # NoError

\* the flavor names that item i of the FLAVOURS list declares
ItemFlavors(i) == {flavours.items[i][k][1] : k \in 1..Len(flavours.items[i])}

\* the pairs of list items that declare one flavor name
DuplicatePositions ==
    {pair \in (1..Len(flavours.items)) \X (1..Len(flavours.items)) :
        pair[1] < pair[2] /\ ItemFlavors(pair[1]) \cap ItemFlavors(pair[2]) # {}}

SinglePairItems == \A i \in 1..Len(flavours.items) : Len(flavours.items[i]) = 1

MappingFlavors(mapping) == {mapping[i][1] : i \in 1..Len(mapping)}

\* C12: the default flavor is not entered into the table: the table built
\* from one mapping has the same key-to-flavor entries with every default
\* flavor, and when the default flavor is not a flavor of the mapping, the
\* matcher returns it for the empty label set only.
DefaultFlavorNotInjected ==
    routing_table # NoTable
        => /\ \A d \in Flavors :
                  to_routing_table(MappingList, d).value = routing_table.value
           /\ (/\ matched # NoMatch
               /\ default_flavour \notin MappingFlavors(MappingList)
               /\ matched.outcome.ok
               /\ matched.outcome.flavor = default_flavour)
                  => matched.labels = {}

\* the empty label set gave a default flavor that no pair of a non-empty
\* mapping declares
DefaultFlavorNotInjectedWitness ==
    /\ routing_table # NoTable
    /\ matched # NoMatch
    /\ matched.labels = {}
    /\ DOMAIN routing_table.value # {}
    /\ default_flavour \notin MappingFlavors(MappingList)
    /\ matched.outcome.ok
    /\ matched.outcome.flavor = default_flavour

\* a mapping without its pair i
WithoutPair(mapping, i) == SubSeq(mapping, 1, i - 1) \o SubSeq(mapping, i + 1, Len(mapping))

\* C13: a flavor declared with an empty label list is accepted by
\* to_routing_table and adds no entry: no key maps to it, and the table is the
\* one built from the mapping without that flavor.
EmptyLabelListAddsNoEntry ==
    routing_table # NoTable
        => \A i \in 1..Len(MappingList) :
               MappingList[i][2] = <<>>
                   => /\ routing_table.kind = "table"
                      /\ \A key \in DOMAIN routing_table.value :
                             routing_table.value[key] # MappingList[i][1]
                      /\ routing_table.value =
                             to_routing_table(WithoutPair(MappingList, i),
                                              default_flavour).value

\* the first flavor has no labels and the second one has entries
EmptyLabelListAddsNoEntryWitness ==
    /\ routing_table # NoTable
    /\ Len(MappingList) = 2
    /\ MappingList[1][2] = <<>>
    /\ Len(MappingList[2][2]) = 2
    /\ Cardinality(DOMAIN routing_table.value) = 3

\* lower-casing and de-duplicating a collection of labels
Normalized(labels) == {Lower(label) : label \in labels}

\* C17: normalizing a label collection twice gives the set that normalizing
\* it once gives, and the matcher gives the same outcome for the collection
\* and for its normalized form.
IdempotentNormalization ==
    matched # NoMatch
        => /\ Normalized(Normalized(matched.labels)) = Normalized(matched.labels)
           /\ OutcomeKind(_labels_to_flavor(Normalized(matched.labels), routing_table))
                  = OutcomeKind(matched.outcome)

\* labels in upper case, which normalizing changes, matched a flavor
IdempotentNormalizationWitness ==
    /\ matched # NoMatch
    /\ X64_UPPER \in matched.labels
    /\ Normalized(matched.labels) # matched.labels
    /\ matched.outcome.ok
    /\ matched.outcome.flavor \in MappingFlavors(MappingList)

\* C14: when mq.add_job_to_queue raises for a queued job whose labels match,
\* forward ends with that exception, neither turned into
\* NonForwardableJobError nor swallowed, after exactly one call of
\* mq.add_job_to_queue, and no queue holds a new message.
QueueFailurePropagates ==
    (/\ last # NoCall
     /\ last.job.status = "queued"
     /\ ~last.mq_up
     /\ \/ LastLowered = {}
        \/ SortedSet(LastLowered) \in DOMAIN routing_table.value)
        => /\ last.outcome = "OperationalError"
           /\ Len(last.calls) = 1
           /\ last.calls[1].job = last.job
           /\ queues = last.queues_before

\* the queue was down for a queued job whose labels are a key of the table
QueueFailurePropagatesWitness ==
    /\ last # NoCall
    /\ last.job.status = "queued"
    /\ ~last.mq_up
    /\ SortedSet(LastLowered) \in DOMAIN routing_table.value
    /\ last.outcome = "OperationalError"
    /\ Queued(queues) = 1

(***************************************************************************)
(* The HTTP endpoints of the application: GET /health and POST /webhook.   *)
(*                                                                         *)
(* A header value that is a str is a TLA+ string, "" when the header is    *)
(* missing; the signature header is the sequence of its parts, <<>> when   *)
(* it is missing.  The request body is the JSON object it holds, a record. *)
(* A response body is the sequence of the parts of the str returned.       *)
(***************************************************************************)
\* conn.ensure_connection(max_retries=1, reraise_as_library_errors=True)
ensure_connection(mq_up) == IF mq_up THEN "connected" ELSE "OperationalError"

\* a probe whose except clause reports success as well
can_connect_ignoring_errors(mq_up) ==
    IF ensure_connection(mq_up) = "OperationalError" THEN TRUE ELSE TRUE

\* mq.can_connect()
can_connect(mq_up) ==
    IF ensure_connection(mq_up) = "OperationalError" THEN FALSE ELSE TRUE

\* router.can_forward(): the calls of mq it makes and what it returns
can_forward(mq_up) == [mq_calls |-> <<"can_connect">>, value |-> can_connect(mq_up)]

\* app.health_check()
health_check(mq_up) ==
    LET ready == can_forward(mq_up)
    IN  IF ~ready.value
        THEN [body |-> <<"Router is not ready to forward jobs.">>, status |-> 503,
              mq_calls |-> ready.mq_calls]
        ELSE [body |-> <<>>, status |-> 200, mq_calls |-> ready.mq_calls]

SUPPORTED_GITHUB_EVENT == "workflow_job"

\* "sha256=" + hmac.new(secret_token, msg=payload, digestmod=sha256).hexdigest():
\* the digest stands for the key and the message it was computed from
expected_signature(payload, secret_token) == <<"sha256=", secret_token, payload>>

\* verify_signature(payload, secret_token, signature_header), as app.py uses
\* it: True when the header is the expected signature
verify_signature(payload, secret_token, signature_header) ==
    expected_signature(payload, secret_token) = signature_header

ValidationResult(is_valid, msg) == [is_valid |-> is_valid, msg |-> msg]

\* a check that lets a request without the signature header pass
_validate_signature_header_accepting_missing(signature_header, secret, data) ==
    IF signature_header = <<>> THEN ValidationResult(TRUE, <<>>)
    ELSE IF ~verify_signature(data, secret, signature_header)
    THEN ValidationResult(FALSE, <<"Signature validation failed!">>)
    ELSE ValidationResult(TRUE, <<>>)

\* _validate_signature_header(signature_header, secret); data is request.data
_validate_signature_header(signature_header, secret, data) ==
    IF signature_header = <<>>
    THEN ValidationResult(FALSE, <<"X-Hub-signature-256 header is missing!">>)
    ELSE IF ~verify_signature(data, secret, signature_header)
    THEN ValidationResult(FALSE, <<"Signature validation failed!">>)
    ELSE ValidationResult(TRUE, <<>>)

_validate_github_event_header(github_event_header) ==
    IF github_event_header # SUPPORTED_GITHUB_EVENT
    THEN IF github_event_header # ""
         THEN ValidationResult(FALSE, <<"Webhook event ", github_event_header,
                                        " not supported!">>)
         ELSE ValidationResult(FALSE, <<"X-Github-Event header is missing!">>)
    ELSE ValidationResult(TRUE, <<>>)

\* a JSON value under a key: a dict, the record of its keys, or a str
JsonDict(dict) == [dict |-> dict]
JsonStr(str) == [str |-> str]

\* _validate_webhook(webhook): the keys action, workflow_job and labels of the
\* key hierarchy; workflow_job must be a dict
_validate_webhook(webhook) ==
    IF "action" \notin DOMAIN webhook
    THEN ValidationResult(FALSE, "action key not found in ")
    ELSE IF "workflow_job" \notin DOMAIN webhook
    THEN ValidationResult(FALSE, "workflow_job key not found in ")
    ELSE IF "dict" \notin DOMAIN webhook.workflow_job
    THEN ValidationResult(FALSE, "workflow_job is not a dict in ")
    ELSE IF "labels" \notin DOMAIN webhook.workflow_job.dict
    THEN ValidationResult(FALSE, "labels key not found in ")
    ELSE ValidationResult(TRUE, "")

\* webhook_to_job(payload, ignore_labels): the Job of a payload, its labels in
\* lower case and without the ignored ones, or the ParseError
webhook_to_job(payload, ignore_labels) ==
    LET validation_result == _validate_webhook(payload)
    IN  IF ~validation_result.is_valid
        THEN [ok |-> FALSE,
              error |-> <<"Could not parse webhook: ", validation_result.msg>>]
        ELSE IF payload.action \notin JobStatus
        THEN [ok |-> FALSE, error |-> <<"Failed to create Webhook object for webhook ">>]
        ELSE [ok |-> TRUE,
              job |-> [labels |-> SortedSet({Lower(label) :
                                                label \in Range(payload.workflow_job.dict.labels)}
                                            \ {Lower(label) : label \in ignore_labels}),
                       status |-> payload.action]]

\* _parse_job(): webhook_to_job(payload=request.get_json(), ignore_labels=...)
_parse_job(request, ignore_labels) == webhook_to_job(request.data, ignore_labels)

\* a handler that takes a NonForwardableJobError for a bad request
handle_github_webhook_rejecting_unroutable(request, secret, table, ignore_labels, q, mq_up) ==
    LET signature == _validate_signature_header(request.signature, secret, request.data)
        event == _validate_github_event_header(request.event)
        parsed == _parse_job(request, ignore_labels)
        result == forward(parsed.job, table, q, mq_up)
        unsent == [forwarded |-> <<>>, mq_calls |-> <<>>, queues |-> q]
        sent == [forwarded |-> <<parsed.job>>, mq_calls |-> result.mq_calls,
                 queues |-> result.queues]
    IN  IF secret # "" /\ ~signature.is_valid
        THEN [body |-> signature.msg, status |-> 403] @@ unsent
        ELSE IF ~event.is_valid THEN [body |-> event.msg, status |-> 400] @@ unsent
        ELSE IF ~parsed.ok THEN [body |-> parsed.error, status |-> 400] @@ unsent
        ELSE IF result.outcome = "NonForwardableJobError"
        THEN [body |-> <<"Not able to forward job due to non-matching labels.">>,
              status |-> 400] @@ sent
        ELSE IF result.outcome = "OperationalError"
        THEN [body |-> <<"Internal Server Error">>, status |-> 500] @@ sent
        ELSE [body |-> <<>>, status |-> 200] @@ sent

\* a handler that forwards the job before it looks at the event header
handle_github_webhook_forwarding_first(request, secret, table, ignore_labels, q, mq_up) ==
    LET signature == _validate_signature_header(request.signature, secret, request.data)
        event == _validate_github_event_header(request.event)
        parsed == _parse_job(request, ignore_labels)
        result == forward(parsed.job, table, q, mq_up)
        unsent == [forwarded |-> <<>>, mq_calls |-> <<>>, queues |-> q]
        sent == [forwarded |-> <<parsed.job>>, mq_calls |-> result.mq_calls,
                 queues |-> result.queues]
    IN  IF secret # "" /\ ~signature.is_valid
        THEN [body |-> signature.msg, status |-> 403] @@ unsent
        ELSE IF ~parsed.ok THEN [body |-> parsed.error, status |-> 400] @@ unsent
        ELSE IF result.outcome = "OperationalError"
        THEN [body |-> <<"Internal Server Error">>, status |-> 500] @@ sent
        ELSE IF ~event.is_valid THEN [body |-> event.msg, status |-> 400] @@ sent
        ELSE IF result.outcome = "NonForwardableJobError"
        THEN [body |-> <<"Not able to forward job due to non-matching labels.">>,
              status |-> 200] @@ sent
        ELSE [body |-> <<>>, status |-> 200] @@ sent

\* app.handle_github_webhook(): the response, the jobs router.forward was
\* called with, the calls of mq made, and the queues left.  An exception of
\* mq.add_job_to_queue leaves the handler and Flask answers 500.
handle_github_webhook(request, secret, table, ignore_labels, q, mq_up) ==
    LET signature == _validate_signature_header(request.signature, secret, request.data)
        event == _validate_github_event_header(request.event)
        parsed == _parse_job(request, ignore_labels)
        result == forward(parsed.job, table, q, mq_up)
        unsent == [forwarded |-> <<>>, mq_calls |-> <<>>, queues |-> q]
        sent == [forwarded |-> <<parsed.job>>, mq_calls |-> result.mq_calls,
                 queues |-> result.queues]
    IN  IF secret # "" /\ ~signature.is_valid
        THEN [body |-> signature.msg, status |-> 403] @@ unsent
        ELSE IF ~event.is_valid THEN [body |-> event.msg, status |-> 400] @@ unsent
        ELSE IF ~parsed.ok THEN [body |-> parsed.error, status |-> 400] @@ unsent
        ELSE IF result.outcome = "NonForwardableJobError"
        THEN [body |-> <<"Not able to forward job due to non-matching labels.">>,
              status |-> 200] @@ sent
        ELSE IF result.outcome = "OperationalError"
        THEN [body |-> <<"Internal Server Error">>, status |-> 500] @@ sent
        ELSE [body |-> <<>>, status |-> 200] @@ sent

(***************************************************************************)
(* The application serving requests: config_app at start-up, then GET      *)
(* /health and POST /webhook requests, with the queue up or down.          *)
(***************************************************************************)
\* the self-hosted label "sh" of DEFAULT_SELF_HOSTED_LABELS, in upper case
SH_UPPER == <<"S", "h">>

\* the FLAVOURS list of the served application: the labels arm and x64 match
\* a flavor each, and no flavor together
WebhookFlavours ==
    { FlavoursList(<< <<<<"large", ListValue(<<ARM>>)>>>>,
                      <<<<"small", ListValue(<<X64_UPPER>>)>>>> >>) }

WEBHOOK_SECRET == "s3cret"

\* a workflow_job payload with an action and labels
JobPayload(action, labels) ==
    [action |-> action, workflow_job |-> JsonDict([id |-> "1", labels |-> labels])]

\* the JSON bodies of the requests: payloads of jobs, and payloads that do
\* not parse (a key is missing, workflow_job is no dict, the action is no
\* job status)
Payloads ==
    { JobPayload("queued", <<SH_UPPER, ARM>>),
      JobPayload("queued", <<X64, ARM>>),
      JobPayload("queued", <<SH_UPPER>>),
      JobPayload("completed", <<ARM>>),
      [workflow_job |-> JsonDict([id |-> "1", labels |-> <<ARM>>])],
      [action |-> "queued", workflow_job |-> JsonDict([id |-> "1"])],
      [action |-> "queued", workflow_job |-> JsonStr("not a dict")],
      JobPayload("requested", <<ARM>>) }

\* the X-Hub-Signature-256 headers sent with a body: none, the signature of
\* the body under the secret, under another secret, and the signature of
\* another body under the secret
SignatureHeaders(data) ==
    { <<>>,
      expected_signature(data, WEBHOOK_SECRET),
      expected_signature(data, "guess"),
      expected_signature(JobPayload("queued", <<>>), WEBHOOK_SECRET) }

EventHeaders == {"", "workflow_job", "push"}

Requests ==
    UNION {[signature : SignatureHeaders(data), event : EventHeaders, data : {data}] :
              data \in Payloads}

InitWebhook ==
    /\ flavours \in WebhookFlavours
    /\ default_flavour = "edge"
    /\ default_self_hosted_labels = StrConfig(SelfHostedLabelsStr)
    /\ routing_table = NoTable
    /\ config_error = NoError
    /\ matched = NoMatch
    /\ queues = NoQueues
    /\ last = NoCall
    /\ webhook_secret \in {"", WEBHOOK_SECRET}
    /\ response = NoResponse
    /\ threads = NoThreads
    /\ labels_flavor_mapping = NoTable
    /\ redelivery = NoRun
    /\ charm_action = NoAction

\* GET /health
HealthCheck(mq_up) ==
    /\ response' = [endpoint |-> "/health", mq_up |-> mq_up, queues_before |-> queues]
                       @@ health_check(mq_up)
    /\ UNCHANGED script_vars
    /\ UNCHANGED <<flavours, default_flavour, default_self_hosted_labels,
                   routing_table, config_error, matched, queues, last,
                   webhook_secret, threads>>

\* POST /webhook
HandleWebhook(request, mq_up) ==
    /\ routing_table # NoTable
    /\ Queued(queues) < MaxQueue
    /\ LET result == handle_github_webhook(request, webhook_secret, routing_table,
                                           default_self_hosted_labels.value, queues, mq_up)
       IN  /\ response' = [endpoint |-> "/webhook", request |-> request, mq_up |-> mq_up,
                           body |-> result.body, status |-> result.status,
                           forwarded |-> result.forwarded, mq_calls |-> result.mq_calls,
                           queues_before |-> queues]
           /\ queues' = result.queues
    /\ UNCHANGED script_vars
    /\ UNCHANGED <<flavours, default_flavour, default_self_hosted_labels,
                   routing_table, config_error, matched, last, webhook_secret,
                   threads>>

NextWebhook ==
    \/ config_app
    \/ \E mq_up \in BOOLEAN : HealthCheck(mq_up)
    \/ \E request \in Requests, mq_up \in BOOLEAN : HandleWebhook(request, mq_up)

SpecWebhook == InitWebhook /\ [][NextWebhook]_vars

\* C16: can_forward returns the boolean of the probe mq.can_connect, False
\* when the connection attempt raises OperationalError; /health answers 200
\* with an empty body when it is True and 503 when it is False; and forward,
\* called by the webhook handler, never calls the probe.
HealthFollowsProbe ==
    /\ response.endpoint = "/health"
           => /\ response.mq_calls = <<"can_connect">>
              /\ response.mq_up => response.status = 200 /\ response.body = <<>>
              /\ ~response.mq_up => response.status = 503
              /\ queues = response.queues_before
    /\ \A mq_up \in BOOLEAN :
           can_forward(mq_up).value = (ensure_connection(mq_up) # "OperationalError")
    /\ response.endpoint = "/webhook"
           => \A i \in 1..Len(response.mq_calls) : response.mq_calls[i] # "can_connect"

\* the probe failed and /health answered 503
HealthFollowsProbeWitness ==
    /\ response.endpoint = "/health"
    /\ ~response.mq_up
    /\ response.status = 503

\* the last request served was a POST to /webhook
WebhookServed == response.endpoint = "/webhook"

\* no secret is configured, or the request carries the signature of its body
SignaturePassed ==
    \/ webhook_secret = ""
    \/ response.request.signature =
           expected_signature(response.request.data, webhook_secret)

EventPassed == response.request.event = "workflow_job"

\* the body is a workflow_job payload: an action that is a job status, and
\* labels
PayloadIsJob ==
    \E action \in JobStatus, labels \in {<<SH_UPPER, ARM>>, <<X64, ARM>>, <<SH_UPPER>>, <<ARM>>} :
        response.request.data = JobPayload(action, labels)

\* router.forward was not called and no queue was touched
NotForwarded ==
    /\ response.forwarded = <<>>
    /\ response.mq_calls = <<>>
    /\ queues = response.queues_before

\* the two rejections of C18
SignatureRejections ==
    /\ response.request.signature = <<>>
           => /\ response.status = 403
              /\ response.body = <<"X-Hub-signature-256 header is missing!">>
              /\ NotForwarded
    /\ (response.request.signature # <<>> /\ ~SignaturePassed)
           => /\ response.status = 403
              /\ response.body = <<"Signature validation failed!">>
              /\ NotForwarded

RequestLabels ==
    {Lower(label) : label \in Range(response.request.data.workflow_job.dict.labels)}
        \ {Lower(label) : label \in default_self_hosted_labels.value}

NThreads == 2      \* request threads that call forward at the same time

NoJob == [labels |-> <<>>, status |-> "none"]

\* a thread that has not called forward
IdleThread ==
    [pc |-> "idle", job |-> NoJob, flavor |-> "", mq_up |-> TRUE,
     outcome |-> "", calls |-> <<>>]

\* the jobs of the concurrent calls: one that matches, one that matches no
\* flavor, one without labels, and one that is not queued
ConcurrentJobs ==
    { [labels |-> <<ARM>>, status |-> "queued"],
      [labels |-> <<X64, ARM>>, status |-> "queued"],
      [labels |-> <<>>, status |-> "queued"],
      [labels |-> <<X64_UPPER>>, status |-> "completed"] }

\* a matcher that remembers a missing key in the table, under the default
\* flavor
_labels_to_flavor_call_caching(labels, table) ==
    LET outcome == _labels_to_flavor(labels, table)
        label_key == SortedSet({Lower(label) : label \in labels})
    IN  [outcome |-> outcome,
         table |-> IF outcome.ok THEN table
                   ELSE [table EXCEPT !.value =
                            MergeEntries([key \in {label_key} |-> table.default_flavor], @)]]

\* one call of _labels_to_flavor on the shared table: what it returns and the
\* table it leaves; it only reads routing_table.value and .default_flavor
_labels_to_flavor_call(labels, table) ==
    [outcome |-> _labels_to_flavor(labels, table), table |-> table]

InitConcurrent ==
    /\ flavours \in WebhookFlavours
    /\ default_flavour \in {"large", "edge"}
    /\ default_self_hosted_labels = StrConfig(SelfHostedLabelsStr)
    /\ routing_table = to_routing_table(MappingList, default_flavour)
    /\ config_error = NoError
    /\ matched = NoMatch
    /\ queues = NoQueues
    /\ last = NoCall
    /\ webhook_secret = ""
    /\ response = NoResponse
    /\ threads = [t \in 1..NThreads |-> IdleThread]
    /\ labels_flavor_mapping = NoTable
    /\ redelivery = NoRun
    /\ charm_action = NoAction

\* a thread calls forward(job, routing_table)
Call(t, job) ==
    /\ threads[t].pc = "idle"
    /\ threads' = [threads EXCEPT ![t] = [@ EXCEPT !.pc = "status", !.job = job]]
    /\ UNCHANGED script_vars
    /\ UNCHANGED <<flavours, default_flavour, default_self_hosted_labels,
                   routing_table, config_error, matched, queues, last,
                   webhook_secret, response>>

\* if job.status != ROUTABLE_JOB_STATUS: return
StatusStep(t) ==
    /\ threads[t].pc = "status"
    /\ threads' = [threads EXCEPT ![t] =
                      IF @.job.status # ROUTABLE_JOB_STATUS
                      THEN [@ EXCEPT !.pc = "done", !.outcome = "returned"]
                      ELSE [@ EXCEPT !.pc = "match"]]
    /\ UNCHANGED script_vars
    /\ UNCHANGED <<flavours, default_flavour, default_self_hosted_labels,
                   routing_table, config_error, matched, queues, last,
                   webhook_secret, response>>

\* flavor = _labels_to_flavor(set(job.labels), routing_table), or the
\* NonForwardableJobError raised from its ValueError
MatchStep(t) ==
    /\ threads[t].pc = "match"
    /\ LET call == _labels_to_flavor_call(Range(threads[t].job.labels), routing_table)
       IN  /\ routing_table' = call.table
           /\ threads' = [threads EXCEPT ![t] =
                             IF call.outcome.ok
                             THEN [@ EXCEPT !.pc = "enqueue", !.flavor = call.outcome.flavor]
                             ELSE [@ EXCEPT !.pc = "done",
                                            !.outcome = "NonForwardableJobError"]]
    /\ UNCHANGED script_vars
    /\ UNCHANGED <<flavours, default_flavour, default_self_hosted_labels,
                   config_error, matched, queues, last, webhook_secret, response>>

\* mq.add_job_to_queue(job, flavor)
EnqueueStep(t, mq_up) ==
    /\ threads[t].pc = "enqueue"
    /\ threads' = [threads EXCEPT ![t] =
                      [@ EXCEPT !.pc = "done", !.mq_up = mq_up,
                                !.outcome = IF mq_up THEN "returned" ELSE "OperationalError",
                                !.calls = <<[job |-> threads[t].job,
                                             flavor |-> threads[t].flavor]>>]]
    /\ queues' = IF mq_up
                 THEN add_job_to_queue(queues, threads[t].job, threads[t].flavor)
                 ELSE queues
    /\ UNCHANGED script_vars
    /\ UNCHANGED <<flavours, default_flavour, default_self_hosted_labels,
                   routing_table, config_error, matched, last, webhook_secret,
                   response>>

NextConcurrent ==
    \E t \in 1..NThreads :
        \/ \E job \in ConcurrentJobs : Call(t, job)
        \/ StatusStep(t)
        \/ MatchStep(t)
        \/ \E mq_up \in BOOLEAN : EnqueueStep(t, mq_up)

SpecConcurrent == InitConcurrent /\ [][NextConcurrent]_vars

\* the threads whose call of forward has ended
DoneThreads == {t \in 1..NThreads : threads[t].pc = "done"}

\* the calls that put a message on the queue of a flavor
EnqueuedBy(flavor) ==
    {t \in DoneThreads : threads[t].outcome = "returned" /\ threads[t].calls # <<>>
                         /\ threads[t].calls[1].flavor = flavor}

\* C15: under every interleaving of concurrent calls of forward on one
\* table, the entries and the default flavor of the table stay the ones it
\* was built with, and every call that has ended has the outcome of the same
\* call of forward run alone on that table (the same return or exception, the
\* same call of mq.add_job_to_queue and one message per successful call).
RoutingTableIsReadOnly ==
    /\ routing_table = to_routing_table(MappingList, default_flavour)
    /\ \A t \in DoneThreads :
           LET alone == forward(threads[t].job,
                                to_routing_table(MappingList, default_flavour),
                                NoQueues, threads[t].mq_up)
           IN  /\ threads[t].outcome = alone.outcome
               /\ threads[t].calls = alone.calls
    /\ \A flavor \in Flavors : Len(queues[flavor]) = Cardinality(EnqueuedBy(flavor))

\* a call was rejected for its labels while another call, already matched,
\* had not yet reached the queue
RoutingTableIsReadOnlyWitness ==
    /\ threads[1].pc = "done"
    /\ threads[1].outcome = "NonForwardableJobError"
    /\ threads[2].pc = "enqueue"
    /\ threads[2].flavor = "large"

(***************************************************************************)
(* webhook_router/webhook/label_translation.py: the label mapping keyed by *)
(* strings. A key is the lower-cased, sorted labels joined by "#".         *)
(***************************************************************************)
LABEL_SEPARATOR == "#"

\* str.join: the strings of seq with sep between two neighbours
RECURSIVE Join(_, _)
Join(sep, seq) ==
    IF seq = <<>> THEN <<>>
    ELSE IF Len(seq) = 1 THEN seq[1]
    ELSE seq[1] \o <<sep>> \o Join(sep, Tail(seq))

\* the keys one (flavor, labels) pair of the mapping asks for
LabelKeys(labels) ==
    {Join(LABEL_SEPARATOR, label_combination) :
        label_combination \in LabelCombinations(SortedLabels(labels))}

\* if label_key not in label_mapping: label_mapping[label_key] = flavor
AddLabelKeys(flavor, labels, label_mapping) ==
    [label_key \in LabelKeys(labels) \cup DOMAIN label_mapping |->
        IF label_key \in DOMAIN label_mapping THEN label_mapping[label_key] ELSE flavor]

\* the loop of to_labels_flavor_mapping over the first n pairs of the mapping
RECURSIVE LabelMappingAfter(_, _)
LabelMappingAfter(flavor_mapping, n) ==
    IF n = 0 THEN EmptyTable
    ELSE AddLabelKeys(flavor_mapping[n][1], flavor_mapping[n][2],
                      LabelMappingAfter(flavor_mapping, n - 1))

\* FlavorLabelsMapping.mapping has at least one pair (min_length=1)
to_labels_flavor_mapping(flavor_label_mapping, ignore_labels) ==
    [kind |-> "mapping",
     default_flavor |-> flavor_label_mapping[1][1],
     mapping |-> LabelMappingAfter(flavor_label_mapping, Len(flavor_label_mapping)),
     ignore_labels |-> {Lower(label) : label \in ignore_labels}]

labels_to_flavor(labels, label_flavor_mapping) ==
    LET labels_lowered == {Lower(label) : label \in labels}
        final_labels == labels_lowered \ label_flavor_mapping.ignore_labels
        label_key == Join(LABEL_SEPARATOR, SortedSet(final_labels))
    IN  IF labels = {}
        THEN [ok |-> TRUE, flavor |-> label_flavor_mapping.default_flavor]
        ELSE IF label_key \notin DOMAIN label_flavor_mapping.mapping
        THEN [ok |-> FALSE, error |-> "Invalid label combination: ", labels |-> labels]
        ELSE [ok |-> TRUE, flavor |-> label_flavor_mapping.mapping[label_key]]

(***************************************************************************)
(* The two label matchers side by side: the string-keyed mapping of        *)
(* label_translation and the tuple-keyed routing table of router are built *)
(* from the same mapping, then one label set is matched against either.    *)
(***************************************************************************)
MaxTranslationLabels == 2   \* labels listed in one mapping, over all its flavors

ARM_X64 == <<"a", "r", "m", "#", "x", "6", "4">>
SH == <<"s", "h">>
LINUX == <<"l", "i", "n", "u", "x">>

\* the labels a mapping may list and the labels a job may ask for
TranslationLabels == {ARM, X64_UPPER, ARM_X64}
QueryLabels == {ARM, X64, ARM_X64, SH_UPPER, LINUX}

TranslationLabelLists ==
    UNION {[1..n -> TranslationLabels] : n \in 0..MaxTranslationLabels}

\* the mappings of at least one flavor (FlavorLabelsMapping: min_length=1)
TranslationLists ==
    UNION {{[i \in 1..n |-> <<<<FlavorOrder[i], ListValue(lists[i])>>>>] :
               lists \in {c \in [1..n -> TranslationLabelLists] :
                             TotalLabels(c, n) <= MaxTranslationLabels}}
           : n \in 1..Len(FlavorOrder)}

\* the ignore_labels given to to_labels_flavor_mapping
IgnoreLabelSets == {{}, {SH, LINUX}, {SH_UPPER, LINUX}}

InitLabels ==
    /\ flavours \in {FlavoursList(items) : items \in TranslationLists}
    /\ default_flavour \in {"large", "edge"}
    /\ default_self_hosted_labels \in
           {[kind |-> "set", value |-> ignore_labels] : ignore_labels \in IgnoreLabelSets}
    /\ routing_table = NoTable
    /\ config_error = NoError
    /\ matched = NoMatch
    /\ queues = NoQueues
    /\ last = NoCall
    /\ webhook_secret = ""
    /\ response = NoResponse
    /\ threads = NoThreads
    /\ labels_flavor_mapping = NoTable
    /\ redelivery = NoRun
    /\ charm_action = NoAction

\* labels_flavor_mapping = to_labels_flavor_mapping(flavor_label_mapping, ignore_labels)
BuildLabelsFlavorMapping ==
    /\ labels_flavor_mapping = NoTable
    /\ labels_flavor_mapping' =
           to_labels_flavor_mapping(MappingList, default_self_hosted_labels.value)
    /\ UNCHANGED <<flavours, default_flavour, default_self_hosted_labels,
                   routing_table, config_error, matched, queues, last,
                   webhook_secret, response, threads, redelivery, charm_action>>

\* labels_to_flavor(labels, labels_flavor_mapping)
MatchLabels(labels) ==
    /\ labels_flavor_mapping # NoTable
    /\ matched' = [kind |-> "labels_to_flavor", labels |-> labels,
                   outcome |-> labels_to_flavor(labels, labels_flavor_mapping)]
    /\ UNCHANGED <<flavours, default_flavour, default_self_hosted_labels,
                   routing_table, config_error, queues, last, webhook_secret,
                   response, threads, labels_flavor_mapping, redelivery,
                   charm_action>>

NextLabels ==
    \/ BuildLabelsFlavorMapping
    \/ BuildTable
    \/ \E labels \in SUBSET QueryLabels : matched = NoMatch /\ MatchLabels(labels)
    \/ \E labels \in SUBSET QueryLabels : matched = NoMatch /\ Match(labels)

SpecLabels == InitLabels /\ [][NextLabels]_vars

\* the lower-cased ignored labels of the deployment
IgnoredLowered == {Lower(label) : label \in default_self_hosted_labels.value}

\* the labels of the last match that are not ignored labels
MatchedNotIgnored == {label \in matched.labels : Lower(label) \notin IgnoredLowered}

\* C21: a non-empty label set made only of ignored labels resolves to the
\* default flavor, with either matcher, and raises no error
IgnoredOnlyResolvesToDefault ==
    (/\ matched.kind \in {"labels_to_flavor", "call"}
     /\ matched.labels # {}
     /\ MatchedNotIgnored = {})
    => /\ matched.outcome.ok
       /\ matched.outcome.flavor =
              IF matched.kind = "call" THEN routing_table.default_flavor
              ELSE labels_flavor_mapping.default_flavor

\* the outcome of matching the labels of the last match without its ignored
\* labels, by the matcher of the last match
OutcomeWithoutIgnored ==
    IF matched.kind = "call" THEN _labels_to_flavor(MatchedNotIgnored, routing_table)
    ELSE labels_to_flavor(MatchedNotIgnored, labels_flavor_mapping)

\* C22: ignored labels, in any letter case, do not change the match: a label
\* set united with ignored labels gets the flavor the set gets without them,
\* and fails when the set fails without them
IgnoredLabelsDoNotChangeMatch ==
    (/\ matched.kind \in {"labels_to_flavor", "call"}
     /\ MatchedNotIgnored # {})
    => OutcomeKind(matched.outcome) = OutcomeKind(OutcomeWithoutIgnored)

\* the lower-cased labels of the last match that labels_to_flavor keeps
FinalLabels == {Lower(label) : label \in matched.labels} \ IgnoredLowered

\* C29: the "#"-joined keys are injective on label sets, so a label set that
\* labels_to_flavor matches is matched through an entry made for that very
\* set: the set is a non-empty part of the labels some flavor declares
KeysAreInjective ==
    (/\ matched.kind = "labels_to_flavor"
     /\ matched.labels # {}
     /\ matched.outcome.ok)
    => \E i \in 1..Len(MappingList) :
           /\ FinalLabels # {}
           /\ FinalLabels \subseteq FlavorLabelSet(i)

\* C30: with no ignored label, no "#" in a label of the set and the first
\* flavor as the default, labels_to_flavor and router._labels_to_flavor give
\* a label set the same flavor, or both fail
MatchersAgree ==
    (/\ matched.kind = "labels_to_flavor"
     /\ routing_table # NoTable
     /\ routing_table.default_flavor = labels_flavor_mapping.default_flavor
     /\ labels_flavor_mapping.ignore_labels = {}
     /\ \A label \in matched.labels : LABEL_SEPARATOR \notin Range(label))
    => OutcomeKind(matched.outcome) =
           OutcomeKind(_labels_to_flavor(matched.labels, routing_table))

(***************************************************************************)
(* webhook_redelivery.py: the script that redelivers failed webhook        *)
(* deliveries. Times are whole seconds; the GitHub API is a collaborator   *)
(* whose answers (the delivery attempts, an exception) are inputs.         *)
(***************************************************************************)
MaxDeliveries == 2   \* delivery attempts GitHub returns for the webhook

OK_STATUS == "OK"
None == "None"

\* datetime.now(tz=timezone.utc) of the run
Now == 2

\* the exceptions of the GitHub client; the first two are GithubExceptions too
GithubExceptions ==
    {"BadCredentialsException", "RateLimitExceededException", "GithubException"}
NoException == "none"

\* int(github_app_installation_id): the string is an integer literal
IsInt(str) == str # <<>> /\ \A i \in 1..Len(str) : Ord(str[i]) \in 48..57

RECURSIVE IntOf(_)
IntOf(str) ==
    IF str = <<>> THEN 0 ELSE 10 * IntOf(SubSeq(str, 1, Len(str) - 1)) + Ord(str[Len(str)]) - 48

ArgParseError(message) == [kind |-> "ArgParseError", message |-> message]
RedeliveryError(message) == [kind |-> "RedeliveryError", message |-> message]
NoOutcome == [kind |-> "none"]
NoAuth == [kind |-> "none"]

\* _arg_parsing: the authentication details of the environment
_arg_parsing(env) ==
    IF env.github_token # ""
    THEN [ok |-> TRUE, github_auth_details |-> [kind |-> "token", token |-> env.github_token]]
    ELSE IF /\ env.github_app_client_id # ""
            /\ env.github_app_installation_id # <<>>
            /\ env.github_app_private_key # ""
    THEN IF IsInt(env.github_app_installation_id)
         THEN [ok |-> TRUE,
               github_auth_details |->
                   [kind |-> "app", client_id |-> env.github_app_client_id,
                    installation_id |-> IntOf(env.github_app_installation_id),
                    private_key |-> env.github_app_private_key]]
         ELSE [ok |-> FALSE, error |-> ArgParseError("Failed to parse github auth details")]
    ELSE [ok |-> FALSE,
          error |-> ArgParseError("Github auth details are not specified completely.")]

\* a decorator whose GithubException clause comes first
_github_api_exc_decorator_generic_first(exc) ==
    RedeliveryError("The github client encountered an error.")

\* _github_api_exc_decorator: the RedeliveryError raised for a GitHub exception
_github_api_exc_decorator(exc) ==
    IF exc = "BadCredentialsException"
    THEN RedeliveryError("The github client returned a Bad Credential error")
    ELSE IF exc = "RateLimitExceededException"
    THEN RedeliveryError("The github client is returning a Rate Limit Exceeded error")
    ELSE RedeliveryError("The github client encountered an error.")

\* None in a field that holds a number otherwise
NoneInt == -1

\* _iter_delivery_attempts: the required fields the delivery holds None for
none_fields(delivery) ==
    {field \in {"id", "delivered_at"} : delivery[field] = NoneInt}
        \cup {field \in {"status", "action", "event"} : delivery[field] = None}

\* a filter that passes over an attempt older than the limit and goes on
_filter_for_failed_attempts_without_break(delivery, since_datetime) ==
    IF delivery.delivered_at < since_datetime THEN "skip"
    ELSE IF /\ delivery.status # OK_STATUS
            /\ delivery.action = ROUTABLE_JOB_STATUS
            /\ delivery.event = SUPPORTED_GITHUB_EVENT
    THEN "yield"
    ELSE "skip"

\* a filter that does not look at the event of the delivery
_filter_for_failed_attempts_any_event(delivery, since_datetime) ==
    IF delivery.delivered_at < since_datetime THEN "break"
    ELSE IF delivery.status # OK_STATUS /\ delivery.action = ROUTABLE_JOB_STATUS
    THEN "yield"
    ELSE "skip"

\* the body of the loop of _filter_for_failed_attempts for one delivery
_filter_for_failed_attempts(delivery, since_datetime) ==
    IF delivery.delivered_at < since_datetime THEN "break"
    ELSE IF /\ delivery.status # OK_STATUS
            /\ delivery.action = ROUTABLE_JOB_STATUS
            /\ delivery.event = SUPPORTED_GITHUB_EVENT
    THEN "yield"
    ELSE "skip"

(***************************************************************************)
(* One run of the script: main parses the arguments, then                  *)
(* _redeliver_failed_webhook_delivery_attempts pulls the delivery attempts *)
(* one by one through its generators and POSTs a redelivery for each one   *)
(* the filter yields.                                                      *)
(***************************************************************************)
INSTALLATION_ID == <<"4", "4", "6">>

Env(token, client_id, installation_id, private_key) ==
    [github_token |-> token, github_app_client_id |-> client_id,
     github_app_installation_id |-> installation_id,
     github_app_private_key |-> private_key]

\* the environments the script is started in
Envs ==
    {Env("token", "", <<>>, ""),
     Env("token", "123", INSTALLATION_ID, "private"),
     Env("", "", <<>>, ""),
     Env("", "eda", INSTALLATION_ID, ""),
     Env("", "123", INSTALLATION_ID, "private"),
     Env("", "123", <<"x">>, "private")}

\* --since
SinceSeconds == {0, 2}

\* what GitHub reports of one delivery attempt, its id apart
DeliveryKinds ==
    [status : {OK_STATUS, "failed"}, delivered_at : {Now - 2, Now},
     action : {"queued"}, event : {"workflow_job"}]
    \cup [status : {"failed"}, delivered_at : {Now - 2, Now},
          action : {"queued", "completed"}, event : {"workflow_job", "push"}]
    \cup [status : {None}, delivered_at : {Now}, action : {"queued"},
          event : {"workflow_job"}]

\* the delivery attempts get_hook_deliveries may return, in its order
DeliverySeqs ==
    UNION {{[i \in 1..n |-> [id |-> i] @@ kinds[i]] : kinds \in [1..n -> DeliveryKinds]}
           : n \in 0..MaxDeliveries}

InitRedelivery ==
    /\ flavours \in {FlavoursList(items) : items \in {<<>>}}
    /\ default_flavour = ""
    /\ default_self_hosted_labels = StrConfig(<<>>)
    /\ routing_table = NoTable
    /\ config_error = NoError
    /\ matched = NoMatch
    /\ queues = NoQueues
    /\ last = NoCall
    /\ webhook_secret = ""
    /\ response = NoResponse
    /\ threads = NoThreads
    /\ labels_flavor_mapping = NoTable
    /\ redelivery \in
           {[pc |-> "start", env |-> env, since |-> since, github_auth |-> NoAuth,
             deliveries |-> <<>>, next |-> 1, posts |-> <<>>,
             raised |-> NoException, outcome |-> NoOutcome] :
               env \in Envs, since \in SinceSeconds}
    /\ charm_action = NoAction

app_vars == <<flavours, default_flavour, default_self_hosted_labels, routing_table,
              config_error, matched, queues, last, webhook_secret, response, threads>>

\* args = _arg_parsing()
ArgParsing ==
    /\ redelivery.pc = "start"
    /\ LET args == _arg_parsing(redelivery.env)
       IN  redelivery' =
               IF args.ok
               THEN [redelivery EXCEPT !.pc = "parsed",
                                       !.github_auth = args.github_auth_details]
               ELSE [redelivery EXCEPT !.pc = "done", !.outcome = args.error]
    /\ UNCHANGED <<app_vars, labels_flavor_mapping, charm_action>>

\* the first pull of _iter_delivery_attempts: get_repo or get_organization,
\* then get_hook_deliveries; GitHub answers with the attempts or an exception
ListDeliveries(deliveries, exc) ==
    /\ redelivery.pc = "parsed"
    /\ exc # NoException => deliveries = <<>>
    /\ redelivery' =
           IF exc = NoException
           THEN [redelivery EXCEPT !.pc = "iterate", !.deliveries = deliveries]
           ELSE [redelivery EXCEPT !.pc = "done", !.raised = exc,
                                   !.outcome = _github_api_exc_decorator(exc)]
    /\ UNCHANGED <<app_vars, labels_flavor_mapping, charm_action>>

\* one turn of the loop of _redeliver_attempts: the next attempt is pulled
\* through _iter_delivery_attempts and _filter_for_failed_attempts and, when
\* it is yielded, redelivered by a POST that GitHub may answer by an exception
RedeliverNext(exc) ==
    /\ redelivery.pc = "iterate"
    /\ LET next == redelivery.next
           returned == [redelivery EXCEPT !.pc = "done",
                           !.outcome = [kind |-> "return", count |-> Len(redelivery.posts)]]
       IN  IF next > Len(redelivery.deliveries)
           THEN exc = NoException /\ redelivery' = returned
           ELSE LET delivery == redelivery.deliveries[next]
                IN  IF none_fields(delivery) # {}
                    THEN /\ exc = NoException
                         /\ redelivery' = [redelivery EXCEPT !.pc = "done",
                                              !.outcome = [kind |-> "AssertionError"]]
                    ELSE LET step == _filter_for_failed_attempts(
                                         delivery, Now - redelivery.since)
                         IN  IF step = "break"
                             THEN exc = NoException /\ redelivery' = returned
                             ELSE IF step = "skip"
                             THEN /\ exc = NoException
                                  /\ redelivery' = [redelivery EXCEPT !.next = next + 1]
                             ELSE IF exc = NoException
                             THEN redelivery' =
                                      [redelivery EXCEPT !.next = next + 1,
                                          !.posts = Append(@, delivery.id)]
                             ELSE redelivery' =
                                      [redelivery EXCEPT !.pc = "done", !.raised = exc,
                                          !.outcome = _github_api_exc_decorator(exc)]
    /\ UNCHANGED <<app_vars, labels_flavor_mapping, charm_action>>

ApiAnswers == GithubExceptions \cup {NoException}

NextRedelivery ==
    \/ ArgParsing
    \/ \E deliveries \in DeliverySeqs, exc \in ApiAnswers : ListDeliveries(deliveries, exc)
    \/ \E exc \in ApiAnswers : RedeliverNext(exc)

SpecRedelivery == InitRedelivery /\ [][NextRedelivery]_vars

\* the run has left _redeliver_failed_webhook_delivery_attempts by a return
Returned == redelivery.pc = "done" /\ redelivery.outcome.kind = "return"

\* the limit of the run: now minus since_seconds
SinceLimit == Now - redelivery.since

\* a failed delivery of a queued workflow job, not older than the limit
FailedSince(delivery) ==
    /\ delivery.status \notin {"OK", None}
    /\ delivery.action = "queued"
    /\ delivery.event = "workflow_job"
    /\ delivery.delivered_at >= SinceLimit

\* the ids of the attempts of a sequence, in its order
IdsOf(deliveries) == [i \in 1..Len(deliveries) |-> deliveries[i].id]

\* the position of the first attempt older than the limit, or one past the end
FirstOld ==
    LET old == {i \in 1..Len(redelivery.deliveries) :
                   redelivery.deliveries[i].delivered_at < SinceLimit}
    IN  IF old = {} THEN Len(redelivery.deliveries) + 1
        ELSE CHOOSE i \in old : \A j \in old : i <= j

\* C23 as stated: a run that returns has sent one POST for each failed
\* delivery since the limit, wherever it stands in the sequence, none for
\* another attempt, and returns the number of POSTs
RedeliversEveryFailedSince ==
    Returned =>
        /\ redelivery.posts = IdsOf(SelectSeq(redelivery.deliveries, FailedSince))
        /\ redelivery.outcome.count = Len(redelivery.posts)

\* C23: a run that returns has sent one POST for each failed delivery since
\* the limit (one exactly at the limit included) that stands before the first
\* attempt older than the limit, none for another attempt, and returns the
\* number of POSTs
RedeliversFailedSinceUntilOld ==
    Returned =>
        /\ redelivery.posts =
               IdsOf(SelectSeq(SubSeq(redelivery.deliveries, 1, FirstOld - 1), FailedSince))
        /\ redelivery.outcome.count = Len(redelivery.posts)

\* a returned run that redelivered the second of two attempts, delivered
\* exactly at the limit, and not the first
RedeliversFailedSinceUntilOldWitness ==
    /\ Returned
    /\ Len(redelivery.deliveries) = 2
    /\ redelivery.posts = <<2>>
    /\ redelivery.deliveries[2].delivered_at = SinceLimit
    /\ redelivery.outcome.count = 1

\* C24: a GitHub exception raised while the deliveries are listed or one is
\* redelivered leaves the run as a RedeliveryError with the message of its
\* class, and nothing else ends a run in which GitHub raised
GithubExceptionsAreWrapped ==
    redelivery.pc \in {"iterate", "done"} /\ redelivery.raised # NoException =>
        /\ redelivery.pc = "done"
        /\ redelivery.outcome.kind = "RedeliveryError"
        /\ redelivery.outcome.message =
               CASE redelivery.raised = "BadCredentialsException" ->
                        "The github client returned a Bad Credential error"
                 [] redelivery.raised = "RateLimitExceededException" ->
                        "The github client is returning a Rate Limit Exceeded error"
                 [] OTHER -> "The github client encountered an error."

\* the rate limit is hit by the second redelivery POST of a run
GithubExceptionsAreWrappedWitness ==
    /\ redelivery.pc = "done"
    /\ redelivery.raised = "RateLimitExceededException"
    /\ Len(redelivery.posts) = 1
    /\ redelivery.outcome.kind = "RedeliveryError"

\* the environment holds a token / all three GitHub-App parameters
HasToken == redelivery.env.github_token # ""
HasAppAuth ==
    /\ redelivery.env.github_app_client_id # ""
    /\ redelivery.env.github_app_installation_id # <<>>
    /\ redelivery.env.github_app_private_key # ""

\* C26: once the arguments are parsed, a run given a token and GitHub-App
\* details has failed with 'specified in two ways', a run given neither a
\* token nor all app parameters has failed with 'not specified completely',
\* and neither has sent a redelivery request
AmbiguousAuthIsRejected ==
    redelivery.pc \notin {"none", "start"} =>
        /\ HasToken /\ HasAppAuth =>
               /\ redelivery.outcome =
                      ArgParseError("Github auth details are specified in two ways.")
               /\ redelivery.posts = <<>>
        /\ ~HasToken /\ ~HasAppAuth =>
               /\ redelivery.outcome =
                      ArgParseError("Github auth details are not specified completely.")
               /\ redelivery.posts = <<>>

\* C27: the attempts after the first one older than the limit are never
\* pulled: none of them is validated, filtered or redelivered
StopsAtFirstOld ==
    redelivery.pc \in {"iterate", "done"} /\ FirstOld <= Len(redelivery.deliveries) =>
        /\ redelivery.next <= FirstOld
        /\ \A i \in 1..Len(redelivery.posts) : redelivery.posts[i] < FirstOld
        /\ redelivery.outcome.kind = "AssertionError" =>
               none_fields(redelivery.deliveries[redelivery.next]) # {}

\* a run returned at an old first attempt that a recent failed delivery and
\* nothing else follows
StopsAtFirstOldWitness ==
    /\ Returned
    /\ Len(redelivery.deliveries) = 2
    /\ FirstOld = 1
    /\ FailedSince(redelivery.deliveries[2])
    /\ redelivery.posts = <<>>

(***************************************************************************)
(* charm.py: the redeliver-failed-webhooks action of the charm. A          *)
(* parameter that is not given is the empty string; a juju secret is the   *)
(* dict of its content.                                                    *)
(***************************************************************************)
MISSING_GITHUB_PARAMS_ERR_MSG == "Either the github-token-secret-id or not all of"
NOT_ALL_GITHUB_APP_PARAMS_ERR_MSG == "Not all of"
PROVIDED_GITHUB_TOKEN_AND_APP_PARAMS_ERR_MSG ==
    "Provided github app auth parameters and github token"

_ActionParamsInvalidError(message) == [ok |-> FALSE, error |-> message]


\* FlaskCharm._get_github_app_installation_auth_details
_get_github_app_installation_auth_details(github_app_client_id, github_app_installation_id_str, secret) ==
    IF ~IsInt(github_app_installation_id_str)
    THEN _ActionParamsInvalidError("Invalid github app installation id")
    ELSE IF "private-key" \notin DOMAIN secret
    THEN _ActionParamsInvalidError(
             "The github app private key secret does not contain a field called 'private-key'.")
    ELSE [ok |-> TRUE,
          auth_details |-> [client_id |-> github_app_client_id,
                            installation_id |-> IntOf(github_app_installation_id_str),
                            private_key |-> secret["private-key"]]]

\* FlaskCharm._get_auth_details; the local names hold the truth value of the
\* parameter, secret is the content of the secret the given secret id names
_get_auth_details(params, secret) ==
    LET github_token_secret_id == params.github_token_secret_id # ""
        github_app_client_id == params.github_app_client_id # ""
        github_app_installation_id_str == params.github_app_installation_id # <<>>
        github_app_private_key_secret_id == params.github_app_private_key_secret_id # ""
    IN  IF ~github_token_secret_id /\ ~(\/ github_app_client_id
                                        \/ github_app_installation_id_str
                                        \/ github_app_private_key_secret_id)
        THEN _ActionParamsInvalidError(MISSING_GITHUB_PARAMS_ERR_MSG)
        ELSE IF github_token_secret_id /\ (\/ github_app_client_id
                                           \/ github_app_installation_id_str
                                           \/ github_app_private_key_secret_id)
        THEN _ActionParamsInvalidError(PROVIDED_GITHUB_TOKEN_AND_APP_PARAMS_ERR_MSG)
        ELSE IF \/ github_app_client_id
                \/ github_app_installation_id_str
                \/ (/\ github_app_private_key_secret_id
                    /\ ~(/\ github_app_client_id
                         /\ github_app_installation_id_str
                         /\ github_app_private_key_secret_id))
        THEN _ActionParamsInvalidError(NOT_ALL_GITHUB_APP_PARAMS_ERR_MSG)
        ELSE IF github_token_secret_id
        THEN IF "token" \notin DOMAIN secret
             THEN _ActionParamsInvalidError(
                      "The github token secret does not contain a field called 'token'.")
             ELSE [ok |-> TRUE, auth_details |-> [token |-> secret.token]]
        ELSE _get_github_app_installation_auth_details(
                 params.github_app_client_id, params.github_app_installation_id, secret)

\* the parameters of the action and the secrets of the model
ActionParams ==
    [github_token_secret_id : {"", "token-secret"},
     github_app_client_id : {"", "123"},
     github_app_installation_id : {<<>>, INSTALLATION_ID, <<"x">>},
     github_app_private_key_secret_id : {"", "key-secret"}]

Secrets ==
    {[name \in {"token"} |-> "token"], [name \in {"private-key"} |-> "private"],
     [name \in {"token-invalid"} |-> "token"]}

\* container.exec(...).wait_output(): the redelivered count, or an ExecError
ExecError == -1
ExecResults == {ExecError, 0, 1}

InitCharm ==
    /\ flavours \in {FlavoursList(items) : items \in {<<>>}}
    /\ default_flavour = ""
    /\ default_self_hosted_labels = StrConfig(<<>>)
    /\ routing_table = NoTable
    /\ config_error = NoError
    /\ matched = NoMatch
    /\ queues = NoQueues
    /\ last = NoCall
    /\ webhook_secret = ""
    /\ response = NoResponse
    /\ threads = NoThreads
    /\ labels_flavor_mapping = NoTable
    /\ redelivery = NoRun
    /\ charm_action \in
           {[status |-> "running", params |-> params, secret |-> secret,
             stdin |-> NoAuth, message |-> <<>>, results |-> NoOutcome] :
               params \in ActionParams, secret \in Secrets}

\* FlaskCharm._on_redeliver_failed_webhooks_action(event)
_on_redeliver_failed_webhooks_action(exec_result) ==
    /\ charm_action.status = "running"
    /\ LET auth == _get_auth_details(charm_action.params, charm_action.secret)
       IN  IF ~auth.ok
           THEN /\ exec_result = ExecError
                /\ charm_action' =
                       [charm_action EXCEPT !.status = "failed",
                           !.message = <<"Invalid action parameters passed: ", auth.error>>]
           ELSE IF exec_result = ExecError
           THEN charm_action' =
                    [charm_action EXCEPT !.status = "failed",
                        !.stdin = auth.auth_details,
                        !.message = <<"Webhooks redelivery failed.">>]
           ELSE charm_action' =
                    [charm_action EXCEPT !.status = "completed",
                        !.stdin = auth.auth_details,
                        !.results = [kind |-> "results", redelivered |-> exec_result]]
    /\ UNCHANGED <<app_vars, labels_flavor_mapping, redelivery>>

NextCharm == \E exec_result \in ExecResults : _on_redeliver_failed_webhooks_action(exec_result)

SpecCharm == InitCharm /\ [][NextCharm]_vars

\* the action is over
ActionDone == charm_action.status \in {"failed", "completed"}

\* the action was given only a token secret id / only the three app parameters
OnlyTokenGiven ==
    /\ charm_action.params.github_token_secret_id # ""
    /\ charm_action.params.github_app_client_id = ""
    /\ charm_action.params.github_app_installation_id = <<>>
    /\ charm_action.params.github_app_private_key_secret_id = ""
OnlyAppGiven ==
    /\ charm_action.params.github_token_secret_id = ""
    /\ charm_action.params.github_app_client_id # ""
    /\ charm_action.params.github_app_installation_id # <<>>
    /\ charm_action.params.github_app_private_key_secret_id # ""

\* the action failed on its parameters and the redelivery script got no input
FailedOnParams ==
    /\ charm_action.status = "failed"
    /\ charm_action.message[1] = "Invalid action parameters passed: "
    /\ charm_action.stdin = NoAuth

\* C25: the action takes exactly one completely given auth method: a token
\* secret id alone gives the script the token, the three app parameters
\* alone give it client_id, installation_id and private_key, and any other
\* combination fails the action before the script is run
ExactlyOneAuthMethod ==
    ActionDone =>
        /\ (OnlyTokenGiven /\ "token" \in DOMAIN charm_action.secret) =>
               charm_action.stdin = [token |-> charm_action.secret.token]
        /\ (/\ OnlyAppGiven
            /\ IsInt(charm_action.params.github_app_installation_id)
            /\ "private-key" \in DOMAIN charm_action.secret) =>
               charm_action.stdin =
                   [client_id |-> charm_action.params.github_app_client_id,
                    installation_id |->
                        IntOf(charm_action.params.github_app_installation_id),
                    private_key |-> charm_action.secret["private-key"]]
        /\ (~OnlyTokenGiven /\ ~OnlyAppGiven) => FailedOnParams

\* config_app has run: it raised or it installed the routing table
ConfigAttempted == config_error # NoError \/ routing_table # NoTable

====
